---- MODULE Spec2Model ----
(***************************************************************************)
(* A model of the route trie of simple-anyserver (src/src/trie.ts).        *)
(*                                                                         *)
(* Strings are sequences of one-character strings, so that the string      *)
(* operations of the source (replace, split, slice, toLowerCase, endsWith, *)
(* regular-expression matching) are computed character by character.       *)
(* An optional value (undefined | v) is the sequence <<>> or <<v>>.        *)
(***************************************************************************)
EXTENDS Integers, Sequences, FiniteSets, TLC

VARIABLES options, nodes, routes, call, ret, httpHandlers, request

vars == <<options, nodes, routes, call, ret, httpHandlers, request>>

(***************************************************************************)
(* Bounds of the model.                                                    *)
(***************************************************************************)
\* the number of addRoute calls of one run
MaxRoutes == 2
\* the length of the segments handed to parseSegment on its own
MaxSegLen == 5
\* the number of add calls on the route constructors of one run
MaxFns == 2

(***************************************************************************)
(* Characters and strings.                                                 *)
(***************************************************************************)
SLASH == "/"

LowerLetters ==
    <<"a", "b", "c", "d", "e", "f", "g", "h", "i", "j", "k", "l", "m", "n", "o", "p", "q", "r", "s", "t", "u", "v", "w", "x", "y", "z">>

UpperLetters ==
    <<"A", "B", "C", "D", "E", "F", "G", "H", "I", "J", "K", "L", "M", "N", "O", "P", "Q", "R", "S", "T", "U", "V", "W", "X", "Y", "Z">>

Letters == {LowerLetters[i] : i \in 1..26} \cup {UpperLetters[i] : i \in 1..26}

Digits == {"0", "1", "2", "3", "4", "5", "6", "7", "8", "9"}

\* [a-zA-Z0-9_]
NameChars == Letters \cup Digits \cup {"_"}

\* String.prototype.toLowerCase, one character
LowerChar(c) ==
    IF \E i \in 1..26 : UpperLetters[i] = c
    THEN LowerLetters[CHOOSE i \in 1..26 : UpperLetters[i] = c]
    ELSE c

toLowerCase(s) == [i \in 1..Len(s) |-> LowerChar(s[i])]

\* String.prototype.toUpperCase, one character
UpperChar(c) ==
    IF \E i \in 1..26 : LowerLetters[i] = c
    THEN UpperLetters[CHOOSE i \in 1..26 : LowerLetters[i] = c]
    ELSE c

toUpperCase(s) == [i \in 1..Len(s) |-> UpperChar(s[i])]

\* s.slice(from) with 0-based from, as s[from+1 .. Len(s)]
Drop(s, n) == SubSeq(s, n + 1, Len(s))

Take(s, n) == SubSeq(s, 1, n)

startsWith(s, p) == Len(s) >= Len(p) /\ Take(s, Len(p)) = p

endsWith(s, p) == Len(s) >= Len(p) /\ Drop(s, Len(s) - Len(p)) = p

\* s.replace(/^\/+/, '')
RECURSIVE TrimLeadingSlashes(_)
TrimLeadingSlashes(s) ==
    IF s # <<>> /\ Head(s) = SLASH THEN TrimLeadingSlashes(Tail(s)) ELSE s

\* s.replace(/\/+$/, '')
RECURSIVE TrimTrailingSlashes(_)
TrimTrailingSlashes(s) ==
    IF s # <<>> /\ s[Len(s)] = SLASH
    THEN TrimTrailingSlashes(Take(s, Len(s) - 1))
    ELSE s

\* s.replace(/\/+/g, '/')
RECURSIVE CollapseSlashes(_)
CollapseSlashes(s) ==
    IF Len(s) < 2 THEN s
    ELSE IF s[1] = SLASH /\ s[2] = SLASH THEN CollapseSlashes(Tail(s))
    ELSE <<s[1]>> \o CollapseSlashes(Tail(s))

\* s.split('/'): the pieces between the separators, empty pieces kept
RECURSIVE SplitFrom(_, _)
SplitFrom(s, cur) ==
    IF s = <<>> THEN <<cur>>
    ELSE IF Head(s) = SLASH THEN <<cur>> \o SplitFrom(Tail(s), <<>>)
    ELSE SplitFrom(Tail(s), Append(cur, Head(s)))

split(s) == SplitFrom(s, <<>>)

\* segs.join('/')
RECURSIVE join(_)
join(segs) ==
    IF segs = <<>> THEN <<>>
    ELSE IF Len(segs) = 1 THEN segs[1]
    ELSE segs[1] \o <<SLASH>> \o join(Tail(segs))

\* array.filter(segment => segment !== '')
RECURSIVE FilterNonEmpty(_)
FilterNonEmpty(segs) ==
    IF segs = <<>> THEN <<>>
    ELSE IF Head(segs) = <<>> THEN FilterNonEmpty(Tail(segs))
    ELSE <<Head(segs)>> \o FilterNonEmpty(Tail(segs))

(***************************************************************************)
(* parseSegment: the segment classifier.                                   *)
(***************************************************************************)
\* the end (exclusive, 1-based) of the longest run of name characters
\* that starts at position p: the greedy ([a-zA-Z0-9_]+)
RECURSIVE NameEnd(_, _)
NameEnd(seg, p) ==
    IF p <= Len(seg) /\ seg[p] \in NameChars THEN NameEnd(seg, p + 1) ELSE p

\* the position of the first ")" at or after p, or 0
RECURSIVE FirstClose(_, _)
FirstClose(seg, p) ==
    IF p > Len(seg) THEN 0
    ELSE IF seg[p] = ")" THEN p
    ELSE FirstClose(seg, p + 1)

\* /:([a-zA-Z0-9_]+)(?:\(([^)]+)\))?\+(.+)/ tried at start position s:
\* <<>> when it does not match there, else <<[name, regex, suffix]>>
SuffixMatchAt(seg, s) ==
    IF ~(s <= Len(seg) /\ seg[s] = ":") THEN <<>>
    ELSE LET p == NameEnd(seg, s + 1)
             c == FirstClose(seg, p + 1)
         IN IF p = s + 1 \/ p > Len(seg) THEN <<>>
            ELSE IF seg[p] = "(" /\ c > p + 1 /\ c + 2 <= Len(seg) /\ seg[c + 1] = "+"
            THEN << [name |-> SubSeq(seg, s + 1, p - 1),
                     regex |-> <<SubSeq(seg, p + 1, c - 1)>>,
                     suffix |-> Drop(seg, c + 1)] >>
            ELSE IF seg[p] = "+" /\ p + 1 <= Len(seg)
            THEN << [name |-> SubSeq(seg, s + 1, p - 1),
                     regex |-> <<>>,
                     suffix |-> Drop(seg, p)] >>
            ELSE <<>>

\* /:([a-zA-Z0-9_]+)\(([^)]+)\)/ tried at start position s
RegexMatchAt(seg, s) ==
    IF ~(s <= Len(seg) /\ seg[s] = ":") THEN <<>>
    ELSE LET p == NameEnd(seg, s + 1)
             c == FirstClose(seg, p + 1)
         IN IF p = s + 1 \/ p > Len(seg) THEN <<>>
            ELSE IF seg[p] = "(" /\ c > p + 1
            THEN << [name |-> SubSeq(seg, s + 1, p - 1),
                     regex |-> <<SubSeq(seg, p + 1, c - 1)>>] >>
            ELSE <<>>

\* segment.match(re) without the sticky or global flag: the match at the
\* leftmost start position that has one
RECURSIVE SuffixSearch(_, _)
SuffixSearch(seg, s) ==
    IF s > Len(seg) THEN <<>>
    ELSE IF SuffixMatchAt(seg, s) # <<>> THEN SuffixMatchAt(seg, s)
    ELSE SuffixSearch(seg, s + 1)

RECURSIVE RegexSearch(_, _)
RegexSearch(seg, s) ==
    IF s > Len(seg) THEN <<>>
    ELSE IF RegexMatchAt(seg, s) # <<>> THEN RegexMatchAt(seg, s)
    ELSE RegexSearch(seg, s + 1)

Parsed(type, name, value, regex, suffix) ==
    [type |-> type, name |-> name, value |-> value, regex |-> regex, suffix |-> suffix]

parseSegment(segment) ==
    LET suffixMatch == SuffixSearch(segment, 1)
        regexMatch == RegexSearch(segment, 1)
    IN IF startsWith(segment, <<":", ":">>)
       THEN Parsed("static", <<>>, << <<":">> \o Drop(segment, 2) >>, <<>>, <<>>)
       ELSE IF segment = <<"*">>
       THEN Parsed("wildcard", <<>>, <<>>, <<>>, <<>>)
       ELSE IF endsWith(segment, <<"*">>) /\ segment[1] = ":"
       THEN Parsed("catch-all", <<SubSeq(segment, 2, Len(segment) - 1)>>, <<>>, <<>>, <<>>)
       ELSE IF suffixMatch # <<>>
       THEN Parsed(IF suffixMatch[1].regex # <<>> THEN "named-regex-suffix" ELSE "named-suffix",
                   <<suffixMatch[1].name>>, <<>>, suffixMatch[1].regex,
                   <<suffixMatch[1].suffix>>)
       ELSE IF regexMatch # <<>>
       THEN Parsed("named-regex", <<regexMatch[1].name>>, <<>>, regexMatch[1].regex, <<>>)
       ELSE IF startsWith(segment, <<":">>)
       THEN Parsed("named", <<Drop(segment, 1)>>, <<>>, <<>>, <<>>)
       ELSE Parsed("static", <<>>, <<segment>>, <<>>, <<>>)

(***************************************************************************)
(* RegExp: the part of the JavaScript regular expressions the routes of    *)
(* the model use.  A source is a sequence of items, an item an atom        *)
(* (\d, ., or a literal character) with an optional + or * after it.       *)
(* A quantifier with no atom before it does not compile ("nothing to       *)
(* repeat"), as in JavaScript.                                             *)
(***************************************************************************)
Quantifiers == {"+", "*"}

\* <<>> when the source does not compile, else <<items>>
RECURSIVE ParseRe(_)
ParseRe(src) ==
    IF src = <<>> THEN << <<>> >>
    ELSE IF Head(src) \in Quantifiers THEN <<>>
    ELSE LET isEsc == Head(src) = "\\"
             alen == IF isEsc THEN 2 ELSE 1
             atom == IF isEsc THEN [kind |-> "class", ch |-> src[2]]
                     ELSE IF Head(src) = "." THEN [kind |-> "any", ch |-> "."]
                     ELSE [kind |-> "lit", ch |-> Head(src)]
             quantified == Len(src) > alen /\ src[alen + 1] \in Quantifiers
             quant == IF quantified THEN src[alen + 1] ELSE "1"
             rest == ParseRe(Drop(src, IF quantified THEN alen + 1 ELSE alen))
         IN IF (isEsc /\ (Len(src) < 2 \/ src[2] # "d")) \/ rest = <<>> THEN <<>>
            ELSE << <<[atom |-> atom, quant |-> quant]>> \o rest[1] >>

AtomAccepts(atom, ch, icase) ==
    CASE atom.kind = "class" -> ch \in Digits
      [] atom.kind = "any" -> TRUE
      [] OTHER -> IF icase THEN LowerChar(ch) = LowerChar(atom.ch) ELSE ch = atom.ch

\* the items match the whole of s
RECURSIVE ReMatch(_, _, _)
ReMatch(items, s, icase) ==
    IF items = <<>> THEN s = <<>>
    ELSE LET it == Head(items)
             lo == IF it.quant = "*" THEN 0 ELSE 1
             hi == IF it.quant = "1" THEN 1 ELSE Len(s)
         IN \E n \in lo..hi :
               /\ n <= Len(s)
               /\ \A j \in 1..n : AtomAccepts(it.atom, s[j], icase)
               /\ ReMatch(Tail(items), Drop(s, n), icase)

\* new RegExp(source, flags) does not throw
RegExpCompiles(source) == ParseRe(source) # <<>>

\* new RegExp(source, flags), for a source that compiles
RegExp(source, flags) == [source |-> source, flags |-> flags]

\* RegExp.prototype.toString
RegExpToString(re) == <<"/">> \o re.source \o <<"/">> \o re.flags

\* RegExp.prototype.test for the anchored expressions ^source$ that
\* addRoute compiles (no g or y flag: test keeps no position between calls)
RegExpTest(re, s) ==
    ReMatch(ParseRe(SubSeq(re.source, 2, Len(re.source) - 1))[1], s, re.flags = <<"i">>)

(***************************************************************************)
(* The trie.  nodes is the heap of TrieNode objects, a sequence indexed by *)
(* node id; the root is node 1.  A Map and a params object are sets of     *)
(* <<key, value>> pairs with one pair per key.                             *)
(***************************************************************************)
ROOT == 1

TrieNode ==
    [staticChildren |-> {}, paramChildren |-> <<>>, catchAllChild |-> <<>>,
     wildcardChild |-> 0, handlers |-> <<>>]

\* Map.prototype.has / get
MapHas(m, k) == \E e \in m : e[1] = k

MapGet(m, k) == (CHOOSE e \in m : e[1] = k)[2]

\* { ...params, [name]: value }
Bind(params, name, value) == {e \in params : e[1] # name} \cup {<<name, value>>}

\* normalizeRoutePath
normalizeRoutePath(path) ==
    LET trimmed == TrimTrailingSlashes(TrimLeadingSlashes(path))
        cased == IF options.ignoreCase THEN toLowerCase(trimmed) ELSE trimmed
    IN IF options.fixedPath THEN CollapseSlashes(cased) ELSE cased

\* the scan of node.paramChildren in _addRoute: the id of the child to
\* reuse, 0 when there is none, -1 when new RegExp(parsed.regex) throws
RECURSIVE FindParam(_, _, _)
FindParam(params, parsed, j) ==
    IF j > Len(params) THEN 0
    ELSE LET param == params[j]
         IN IF param.name = parsed.name[1] /\ param.type = parsed.type
            THEN IF parsed.regex # <<>> /\ ~RegExpCompiles(parsed.regex[1]) THEN -1
                 ELSE IF /\ (IF param.regex = <<>> THEN <<>>
                             ELSE <<RegExpToString(param.regex[1])>>)
                            = (IF parsed.regex # <<>>
                               THEN <<RegExpToString(RegExp(parsed.regex[1], <<>>))>>
                               ELSE <<>>)
                         /\ param.suffix = parsed.suffix
                      THEN param.node
                      ELSE FindParam(params, parsed, j + 1)
            ELSE FindParam(params, parsed, j + 1)

\* _addRoute: the heap after the call, and whether the call threw
RECURSIVE addRouteRec(_, _, _, _, _)
addRouteRec(ns, node, segments, index, handler) ==
    IF index >= Len(segments)
    THEN [nodes |-> [ns EXCEPT ![node].handlers = Append(@, handler)], threw |-> FALSE]
    ELSE
    LET parsed == parseSegment(segments[index + 1])
        fresh == Len(ns) + 1
        grown == Append(ns, TrieNode)
    IN CASE parsed.type = "static" ->
              LET staticValue == parsed.value[1]
              IN IF MapHas(ns[node].staticChildren, staticValue)
                 THEN addRouteRec(ns, MapGet(ns[node].staticChildren, staticValue),
                                  segments, index + 1, handler)
                 ELSE addRouteRec(
                        [grown EXCEPT ![node].staticChildren = @ \cup {<<staticValue, fresh>>}],
                        fresh, segments, index + 1, handler)
         [] parsed.type \in {"named", "named-regex", "named-suffix", "named-regex-suffix"} ->
              LET found == FindParam(ns[node].paramChildren, parsed, 1)
                  flags == IF options.ignoreCase THEN <<"i">> ELSE <<>>
                  regexObj == IF parsed.regex # <<>>
                              THEN <<RegExp(<<"^">> \o parsed.regex[1] \o <<"$">>, flags)>>
                              ELSE <<>>
              IN IF found = -1 THEN [nodes |-> ns, threw |-> TRUE]
                 ELSE IF found # 0 THEN addRouteRec(ns, found, segments, index + 1, handler)
                 ELSE IF parsed.regex # <<>> /\ ~RegExpCompiles(parsed.regex[1])
                 THEN [nodes |-> ns, threw |-> TRUE]
                 ELSE addRouteRec(
                        [grown EXCEPT ![node].paramChildren =
                            Append(@, [type |-> parsed.type, name |-> parsed.name[1],
                                       regex |-> regexObj, suffix |-> parsed.suffix,
                                       node |-> fresh])],
                        fresh, segments, index + 1, handler)
         [] parsed.type = "catch-all" ->
              IF ns[node].catchAllChild # <<>>
              THEN addRouteRec(ns, ns[node].catchAllChild[1].node, segments, index + 1, handler)
              ELSE addRouteRec(
                     [grown EXCEPT ![node].catchAllChild =
                         <<[name |-> parsed.name[1], node |-> fresh]>>],
                     fresh, segments, index + 1, handler)
         [] OTHER ->
              IF ns[node].wildcardChild # 0
              THEN addRouteRec(ns, ns[node].wildcardChild, segments, Len(segments), handler)
              ELSE addRouteRec([grown EXCEPT ![node].wildcardChild = fresh],
                               fresh, segments, Len(segments), handler)

\* this.routes after lines 61-64 of addRoute
RoutesPush(rs, key, handler) ==
    IF \E j \in 1..Len(rs) : rs[j][1] = key
    THEN [j \in 1..Len(rs) |->
            IF rs[j][1] = key THEN <<key, Append(rs[j][2], handler)>> ELSE rs[j]]
    ELSE Append(rs, <<key, <<handler>>>>)

(***************************************************************************)
(* Matching.                                                               *)
(***************************************************************************)
MatchResult(params, handlers) == [params |-> params, handlers |-> handlers]

\* the value a parameter child binds for the segment: <<>> for null
ParamValue(param, currentSegment) ==
    CASE param.type = "named" -> <<currentSegment>>
      [] param.type = "named-regex" ->
            IF param.regex # <<>> /\ RegExpTest(param.regex[1], currentSegment)
            THEN <<currentSegment>> ELSE <<>>
      [] param.type = "named-suffix" ->
            IF /\ param.suffix # <<>> /\ param.suffix[1] # <<>>
               /\ endsWith(currentSegment, param.suffix[1])
            THEN <<Take(currentSegment, Len(currentSegment) - Len(param.suffix[1]))>>
            ELSE <<>>
      [] OTHER ->
            IF /\ param.suffix # <<>> /\ param.suffix[1] # <<>>
               /\ endsWith(currentSegment, param.suffix[1])
               /\ param.regex # <<>>
               /\ RegExpTest(param.regex[1],
                     Take(currentSegment, Len(currentSegment) - Len(param.suffix[1])))
            THEN <<Take(currentSegment, Len(currentSegment) - Len(param.suffix[1]))>>
            ELSE <<>>

RECURSIVE matchRec(_, _, _, _, _)
RECURSIVE matchParams(_, _, _, _, _, _)

\* _match returning at the first branch that has results
matchRecFirst(ns, node, segments, index, params) ==
    IF index >= Len(segments)
    THEN (IF Len(ns[node].handlers) > 0
          THEN <<MatchResult(params, ns[node].handlers)>> ELSE <<>>)
         \o
         (IF ns[node].catchAllChild # <<>>
             /\ Len(ns[ns[node].catchAllChild[1].node].handlers) > 0
          THEN <<MatchResult(Bind(params, ns[node].catchAllChild[1].name, <<>>),
                             ns[ns[node].catchAllChild[1].node].handlers)>>
          ELSE <<>>)
    ELSE
    LET currentSegment == segments[index + 1]
        static == IF MapHas(ns[node].staticChildren, currentSegment)
                  THEN matchRec(ns, MapGet(ns[node].staticChildren, currentSegment),
                                segments, index + 1, params)
                  ELSE <<>>
        param == matchParams(ns, node, segments, index, params, 1)
        catchAll == IF ns[node].catchAllChild # <<>>
                       /\ Len(ns[ns[node].catchAllChild[1].node].handlers) > 0
                    THEN <<MatchResult(Bind(params, ns[node].catchAllChild[1].name,
                                            join(Drop(segments, index))),
                                       ns[ns[node].catchAllChild[1].node].handlers)>>
                    ELSE <<>>
        wildcard == IF ns[node].wildcardChild # 0 /\ index < Len(segments)
                    THEN matchRec(ns, ns[node].wildcardChild, segments, Len(segments), params)
                    ELSE <<>>
    IN IF static # <<>> THEN static
       ELSE IF param # <<>> THEN param
       ELSE IF catchAll # <<>> THEN catchAll
       ELSE wildcard

\* _match with a catch-all that needs a segment to bind: no catch-all
\* result once the segments are exhausted
matchRecNoEmptyRest(ns, node, segments, index, params) ==
    IF index >= Len(segments)
    THEN (IF Len(ns[node].handlers) > 0
          THEN <<MatchResult(params, ns[node].handlers)>> ELSE <<>>)
    ELSE
    LET currentSegment == segments[index + 1]
    IN (IF MapHas(ns[node].staticChildren, currentSegment)
        THEN matchRec(ns, MapGet(ns[node].staticChildren, currentSegment),
                      segments, index + 1, params)
        ELSE <<>>)
       \o
       matchParams(ns, node, segments, index, params, 1)
       \o
       (IF ns[node].catchAllChild # <<>>
           /\ Len(ns[ns[node].catchAllChild[1].node].handlers) > 0
        THEN <<MatchResult(Bind(params, ns[node].catchAllChild[1].name,
                                join(Drop(segments, index))),
                           ns[ns[node].catchAllChild[1].node].handlers)>>
        ELSE <<>>)
       \o
       (IF ns[node].wildcardChild # 0 /\ index < Len(segments)
        THEN matchRec(ns, ns[node].wildcardChild, segments, Len(segments), params)
        ELSE <<>>)

\* _match that looks at the catch-all child before the static and the
\* parameter children
matchRecCatchAllFirst(ns, node, segments, index, params) ==
    IF index >= Len(segments)
    THEN (IF Len(ns[node].handlers) > 0
          THEN <<MatchResult(params, ns[node].handlers)>> ELSE <<>>)
         \o
         (IF ns[node].catchAllChild # <<>>
             /\ Len(ns[ns[node].catchAllChild[1].node].handlers) > 0
          THEN <<MatchResult(Bind(params, ns[node].catchAllChild[1].name, <<>>),
                             ns[ns[node].catchAllChild[1].node].handlers)>>
          ELSE <<>>)
    ELSE
    LET currentSegment == segments[index + 1]
    IN (IF ns[node].catchAllChild # <<>>
           /\ Len(ns[ns[node].catchAllChild[1].node].handlers) > 0
        THEN <<MatchResult(Bind(params, ns[node].catchAllChild[1].name,
                                join(Drop(segments, index))),
                           ns[ns[node].catchAllChild[1].node].handlers)>>
        ELSE <<>>)
       \o
       (IF MapHas(ns[node].staticChildren, currentSegment)
        THEN matchRec(ns, MapGet(ns[node].staticChildren, currentSegment),
                      segments, index + 1, params)
        ELSE <<>>)
       \o
       matchParams(ns, node, segments, index, params, 1)
       \o
       (IF ns[node].wildcardChild # 0 /\ index < Len(segments)
        THEN matchRec(ns, ns[node].wildcardChild, segments, Len(segments), params)
        ELSE <<>>)

\* _match
matchRec(ns, node, segments, index, params) ==
    IF index >= Len(segments)
    THEN (IF Len(ns[node].handlers) > 0
          THEN <<MatchResult(params, ns[node].handlers)>> ELSE <<>>)
         \o
         (IF ns[node].catchAllChild # <<>>
             /\ Len(ns[ns[node].catchAllChild[1].node].handlers) > 0
          THEN <<MatchResult(Bind(params, ns[node].catchAllChild[1].name, <<>>),
                             ns[ns[node].catchAllChild[1].node].handlers)>>
          ELSE <<>>)
    ELSE
    LET currentSegment == segments[index + 1]
    IN \* 1. static children
       (IF MapHas(ns[node].staticChildren, currentSegment)
        THEN matchRec(ns, MapGet(ns[node].staticChildren, currentSegment),
                      segments, index + 1, params)
        ELSE <<>>)
       \o
       \* 2. parameter children
       matchParams(ns, node, segments, index, params, 1)
       \o
       \* 3. catch-all parameter
       (IF ns[node].catchAllChild # <<>>
           /\ Len(ns[ns[node].catchAllChild[1].node].handlers) > 0
        THEN <<MatchResult(Bind(params, ns[node].catchAllChild[1].name,
                                join(Drop(segments, index))),
                           ns[ns[node].catchAllChild[1].node].handlers)>>
        ELSE <<>>)
       \o
       \* 4. wildcard
       (IF ns[node].wildcardChild # 0 /\ index < Len(segments)
        THEN matchRec(ns, ns[node].wildcardChild, segments, Len(segments), params)
        ELSE <<>>)

\* the loop over node.paramChildren of _match, from its j-th record on
matchParams(ns, node, segments, index, params, j) ==
    IF j > Len(ns[node].paramChildren) THEN <<>>
    ELSE LET param == ns[node].paramChildren[j]
             paramValue == ParamValue(param, segments[index + 1])
         IN (IF paramValue # <<>>
             THEN matchRec(ns, param.node, segments, index + 1,
                           Bind(params, param.name, paramValue[1]))
             ELSE <<>>)
            \o matchParams(ns, node, segments, index, params, j + 1)

\* i of _matchPath: the 0-based index of the first non-empty piece
RECURSIVE FirstContent(_, _)
FirstContent(segments, i) ==
    IF i < Len(segments) /\ segments[i + 1] = <<>> THEN FirstContent(segments, i + 1) ELSE i

\* k of _matchPath: the 0-based index of the last non-empty piece
RECURSIVE LastContent(_, _, _)
LastContent(segments, i, k) ==
    IF k >= i /\ segments[k + 1] = <<>> THEN LastContent(segments, i, k - 1) ELSE k

RECURSIVE Repeat(_, _)
Repeat(x, n) == IF n <= 0 THEN <<>> ELSE <<x>> \o Repeat(x, n - 1)

\* matchSegments without the case folding of lines 130-132
matchSegmentsNoFold(path, useFixedPath, useTrailingSlash) ==
    LET n1 == IF useFixedPath THEN CollapseSlashes(path) ELSE path
        normalized == IF useTrailingSlash THEN TrimTrailingSlashes(n1) ELSE n1
        segments == split(normalized)
        i == FirstContent(segments, 0)
        k == LastContent(segments, i, Len(segments) - 1)
        contentEnd == k + 1
        trailingEmptiesCount == Len(segments) - contentEnd
        content == SubSeq(segments, i + 1, contentEnd)
        filtered == IF useFixedPath THEN FilterNonEmpty(content) ELSE content
        addTrailing == ~useTrailingSlash /\ trailingEmptiesCount > 0
        numToAdd == IF useFixedPath THEN 1 ELSE trailingEmptiesCount
    IN IF addTrailing THEN filtered \o Repeat(<<>>, numToAdd) ELSE filtered

\* matchSegments without lines 154-160: trailing empty pieces are dropped
\* in every attempt
matchSegmentsNoTrailing(path, useFixedPath, useTrailingSlash) ==
    LET n1 == IF useFixedPath THEN CollapseSlashes(path) ELSE path
        n2 == IF useTrailingSlash THEN TrimTrailingSlashes(n1) ELSE n1
        normalized == IF options.ignoreCase THEN toLowerCase(n2) ELSE n2
        segments == split(normalized)
        i == FirstContent(segments, 0)
        k == LastContent(segments, i, Len(segments) - 1)
        content == SubSeq(segments, i + 1, k + 1)
    IN IF useFixedPath THEN FilterNonEmpty(content) ELSE content

\* the segments _matchPath hands to _match
matchSegments(path, useFixedPath, useTrailingSlash) ==
    LET n1 == IF useFixedPath THEN CollapseSlashes(path) ELSE path
        n2 == IF useTrailingSlash THEN TrimTrailingSlashes(n1) ELSE n1
        normalized == IF options.ignoreCase THEN toLowerCase(n2) ELSE n2
        segments == split(normalized)
        i == FirstContent(segments, 0)
        k == LastContent(segments, i, Len(segments) - 1)
        contentEnd == k + 1
        trailingEmptiesCount == Len(segments) - contentEnd
        content == SubSeq(segments, i + 1, contentEnd)
        filtered == IF useFixedPath THEN FilterNonEmpty(content) ELSE content
        addTrailing == ~useTrailingSlash /\ trailingEmptiesCount > 0
        numToAdd == IF useFixedPath THEN 1 ELSE trailingEmptiesCount
    IN IF addTrailing THEN filtered \o Repeat(<<>>, numToAdd) ELSE filtered

\* _matchPath
matchPath(path, useFixedPath, useTrailingSlash) ==
    matchRec(nodes, ROOT, matchSegments(path, useFixedPath, useTrailingSlash), 0, {})

\* match with the second attempt made whatever the fixedPath option says
matchUnguarded(path) ==
    LET exactMatch == matchPath(path, FALSE, FALSE)
        fixedMatch == matchPath(path, TRUE, FALSE)
        trailingMatch == matchPath(path, options.fixedPath, TRUE)
    IN IF Len(exactMatch) > 0 THEN exactMatch
       ELSE IF Len(fixedMatch) > 0 THEN fixedMatch
       ELSE IF options.trailingSlash /\ Len(trailingMatch) > 0 THEN trailingMatch
       ELSE <<>>

\* match
match(path) ==
    LET exactMatch == matchPath(path, FALSE, FALSE)
        fixedMatch == matchPath(path, TRUE, FALSE)
        trailingMatch == matchPath(path, options.fixedPath, TRUE)
    IN IF Len(exactMatch) > 0 THEN exactMatch
       ELSE IF options.fixedPath /\ Len(fixedMatch) > 0 THEN fixedMatch
       ELSE IF options.trailingSlash /\ Len(trailingMatch) > 0 THEN trailingMatch
       ELSE <<>>

(***************************************************************************)
(* The operations.  call is the last call made on the router and ret what  *)
(* it returned: whether it threw and, if not, the value (<<>> for          *)
(* undefined).  The handler of the n-th addRoute call is the number n.     *)
(* httpHandlers and request are the state of the server built on the       *)
(* router (src/src/index.ts): they stay as constructed while the router is *)
(* used on its own.                                                        *)
(***************************************************************************)
\* no request in flight
NoRequest ==
    [pc |-> "idle", url |-> <<>>, method |-> <<>>, matched |-> <<>>,
     m |-> 0, h |-> 0, invoked |-> <<>>]

RECURSIVE CountHandlers(_)
CountHandlers(rs) == IF rs = <<>> THEN 0 ELSE Len(Head(rs)[2]) + CountHandlers(Tail(rs))

Call(op, path, handler) == [op |-> op, path |-> path, handler |-> handler]

Return(value) == [threw |-> FALSE, value |-> value]

Throw == [threw |-> TRUE, value |-> <<>>]

\* new RouteTrie(options)
Construct(opts) ==
    /\ options = opts
    /\ nodes = <<TrieNode>>
    /\ routes = <<>>
    /\ call = Call("new", <<>>, 0)
    /\ ret = Return(<<>>)
    /\ httpHandlers = <<>>
    /\ request = NoRequest

\* addRoute(path, handler)
AddRoute(path) ==
    LET handler == CountHandlers(routes) + 1
        normalizedPath == normalizeRoutePath(path)
        segments == FilterNonEmpty(split(normalizedPath))
        done == addRouteRec(nodes, ROOT, segments, 0, handler)
    IN /\ handler <= MaxRoutes
       /\ routes' = RoutesPush(routes, normalizedPath, handler)
       /\ nodes' = done.nodes
       /\ call' = Call("addRoute", path, handler)
       /\ ret' = IF done.threw THEN Throw ELSE Return(<<>>)
       /\ UNCHANGED <<options, httpHandlers, request>>

\* match(path) that finds or creates the node it looks up
MatchCreating(path) ==
    /\ ret' = Return(match(path))
    /\ call' = Call("match", path, 0)
    /\ nodes' = Append(nodes, TrieNode)
    /\ UNCHANGED <<options, routes, httpHandlers, request>>

\* match(path)
Match(path) ==
    /\ ret' = Return(match(path))
    /\ call' = Call("match", path, 0)
    /\ UNCHANGED <<options, nodes, routes, httpHandlers, request>>

\* parseSegment(segment), called on its own
ParseSegment(segment) ==
    /\ ret' = Return(parseSegment(segment))
    /\ call' = Call("parseSegment", segment, 0)
    /\ UNCHANGED <<options, nodes, routes, httpHandlers, request>>

(***************************************************************************)
(* The server (src/src/index.ts, src/src/chain.ts).  httpHandlers[n] is    *)
(* the handler that the n-th http call hands to addRoute: the method it    *)
(* was given (<<>> for none) and the chain of its route constructor, one   *)
(* entry per function added, saying what that function returns ("object"   *)
(* or "undefined").  request is the run of the listener on the request in  *)
(* flight: the results matched, the position (m, h) of the two loops, and  *)
(* the handlers invoked so far with the params passed and the value        *)
(* awaited ("true", "false" or "undefined").                               *)
(***************************************************************************)
\* createChain(fns).run
RECURSIVE chainRun(_)
chainRun(fns) ==
    IF fns = <<>> THEN "true"
    ELSE IF Head(fns) = "undefined" THEN "false"
    ELSE chainRun(Tail(fns))

\* the handler http hands to addRoute, called for a request with the method
httpHandler(handler, method) ==
    LET registered == httpHandlers[handler].method
    IN IF /\ registered # <<>> /\ registered[1] # <<>>
          /\ toUpperCase(method) # toUpperCase(registered[1])
       THEN "undefined"
       ELSE chainRun(httpHandlers[handler].chain)

\* !next
Falsy(next) == next \in {"false", "undefined"}

\* http(route, method)
Http(route, method) ==
    LET handler == CountHandlers(routes) + 1
        normalizedPath == normalizeRoutePath(route)
        segments == FilterNonEmpty(split(normalizedPath))
        done == addRouteRec(nodes, ROOT, segments, 0, handler)
    IN /\ handler <= MaxRoutes
       /\ httpHandlers' = Append(httpHandlers, [method |-> method, chain |-> <<>>])
       /\ routes' = RoutesPush(routes, normalizedPath, handler)
       /\ nodes' = done.nodes
       /\ call' = Call("addRoute", route, handler)
       /\ ret' = IF done.threw THEN Throw ELSE Return(<<>>)
       /\ UNCHANGED <<options, request>>

\* the functions added to all route constructors so far
RECURSIVE CountFns(_)
CountFns(hs) == IF hs = <<>> THEN 0 ELSE Len(Head(hs).chain) + CountFns(Tail(hs))

\* add(handler) on the route constructor of the given http call, or on any
\* constructor that add returned for it
Add(handler, returns) ==
    /\ handler \in 1..Len(httpHandlers)
    /\ CountFns(httpHandlers) < MaxFns
    /\ httpHandlers' = [httpHandlers EXCEPT ![handler].chain = Append(@, returns)]
    /\ UNCHANGED <<options, nodes, routes, call, ret, request>>

\* the listener of listen up to its loops: a request arrives and is matched
Receive(url, method) ==
    LET matched == match(url)
    IN /\ request.pc # "dispatch"
       /\ request' = [pc |-> IF matched = <<>> THEN "done" ELSE "dispatch",
                      url |-> url, method |-> method, matched |-> matched,
                      m |-> 1, h |-> 1, invoked |-> <<>>]
       /\ call' = Call("match", url, 0)
       /\ ret' = Return(matched)
       /\ UNCHANGED <<options, nodes, routes, httpHandlers>>

\* the position of the loops after the handler at (m, h): <<>> at the end
NextPosition(matched, m, h) ==
    IF h < Len(matched[m].handlers) THEN <<m, h + 1>>
    ELSE IF m < Len(matched) THEN <<m + 1, 1>>
    ELSE <<>>

\* one turn of the loops that goes on whatever the handler returned
InvokeAll ==
    LET result == request.matched[request.m]
        handler == result.handlers[request.h]
        next == httpHandler(handler, request.method)
        position == NextPosition(request.matched, request.m, request.h)
    IN /\ request.pc = "dispatch"
       /\ request' = [request EXCEPT
             !.invoked = Append(@, [handler |-> handler, params |-> result.params,
                                    next |-> next]),
             !.pc = IF position = <<>> THEN "done" ELSE "dispatch",
             !.m = IF position = <<>> THEN @ ELSE position[1],
             !.h = IF position = <<>> THEN @ ELSE position[2]]
       /\ UNCHANGED <<options, nodes, routes, call, ret, httpHandlers>>

\* one turn of the loops of the listener: await handler(request, response,
\* match.params); if (!next) return
Invoke ==
    LET result == request.matched[request.m]
        handler == result.handlers[request.h]
        next == httpHandler(handler, request.method)
        position == NextPosition(request.matched, request.m, request.h)
        over == Falsy(next) \/ position = <<>>
    IN /\ request.pc = "dispatch"
       /\ request' = [request EXCEPT
             !.invoked = Append(@, [handler |-> handler, params |-> result.params,
                                    next |-> next]),
             !.pc = IF over THEN "done" ELSE "dispatch",
             !.m = IF over THEN @ ELSE position[1],
             !.h = IF over THEN @ ELSE position[2]]
       /\ UNCHANGED <<options, nodes, routes, call, ret, httpHandlers>>

(***************************************************************************)
(* The route patterns and request paths of the runs.                       *)
(***************************************************************************)
\* /
R_root == <<"/">>
\* /a
R_a == <<"/", "a">>
\* /a/b
R_ab == <<"/", "a", "/", "b">>
\* /a/b/
R_abTrail == <<"/", "a", "/", "b", "/">>
\* /a//b/
R_abSlashes == <<"/", "a", "/", "/", "b", "/">>
\* /A
R_A == <<"/", "A">>
\* /:x
R_x == <<"/", ":", "x">>
\* /a/:x
R_ax == <<"/", "a", "/", ":", "x">>
\* /:id
R_id == <<"/", ":", "i", "d">>
\* /:id(\d+)
R_idDigits == <<"/", ":", "i", "d", "(", "\\", "d", "+", ")">>
\* /:x(\d+)
R_xDigits == <<"/", ":", "x", "(", "\\", "d", "+", ")">>
\* /:x+.t
R_xDotT == <<"/", ":", "x", "+", ".", "t">>
\* /:x(\d+)+.t
R_xDigitsDotT == <<"/", ":", "x", "(", "\\", "d", "+", ")", "+", ".", "t">>
\* /:rest*
R_rest == <<"/", ":", "r", "e", "s", "t", "*">>
\* /a/:r*
R_aRest == <<"/", "a", "/", ":", "r", "*">>
\* /:r*/b
R_restTail == <<"/", ":", "r", "*", "/", "b">>
\* /a/*
R_aStar == <<"/", "a", "/", "*">>
\* /*
R_star == <<"/", "*">>
\* /:x/*
R_xStar == <<"/", ":", "x", "/", "*">>
\* /::x
R_escX == <<"/", ":", ":", "x">>
\* /api/foo
R_apiFoo == <<"/", "a", "p", "i", "/", "f", "o", "o">>
\* /foo
R_foo == <<"/", "f", "o", "o">>
\* /api/foo/
R_apiFooTrail == <<"/", "a", "p", "i", "/", "f", "o", "o", "/">>
\* /FOO
R_FOO == <<"/", "F", "O", "O">>
\* /foo/:x
R_fooX == <<"/", "f", "o", "o", "/", ":", "x">>
\* /:x(+), whose pattern does not compile
R_xBad == <<"/", ":", "x", "(", "+", ")">>
\* /a/:x(+)
R_axBad == <<"/", "a", "/", ":", "x", "(", "+", ")">>
\* /test/:id
R_testId == <<"/", "t", "e", "s", "t", "/", ":", "i", "d">>

OptionSets == [ignoreCase : BOOLEAN, fixedPath : BOOLEAN, trailingSlash : BOOLEAN]

StrictOptions == [ignoreCase |-> FALSE, fixedPath |-> FALSE, trailingSlash |-> FALSE]

\* the defaults of the constructor
LenientOptions == [ignoreCase |-> TRUE, fixedPath |-> TRUE, trailingSlash |-> TRUE]

\* routes of every segment kind, matched under every option combination
Patterns ==
    {R_a,
     R_id,
     R_idDigits,
     R_rest,
     R_aRest,
     R_restTail,
     R_aStar,
     R_star}

Paths ==
    {<<"/">>,
     <<"/", "a">>,
     <<"/", "4", "2">>,
     <<"/", "a", "b", "c">>,
     <<"/", "a", "/">>,
     <<"/", "a", "/", "b">>,
     <<"/", "a", "/", "b", "/", "c">>,
     <<"/", "A", "/", "/", "b">>}

Init == \E opts \in OptionSets : Construct(opts)

Next ==
    \/ \E path \in Patterns : AddRoute(path)
    \/ \E path \in Paths : Match(path)

Spec == Init /\ [][Next]_vars

\* routes and paths that differ in separators and case, under every option
\* combination
NormPatterns ==
    {R_a,
     R_abSlashes,
     R_ax,
     R_idDigits,
     R_xDotT}

NormPaths ==
    {<<"/", "a">>,
     <<"/", "a", "/">>,
     <<"/", "/", "a">>,
     <<"/", "a", "/", "b">>,
     <<"/", "a", "/", "/", "b">>,
     <<"/", "a", "/", "/", "b", "/">>,
     <<"/", "A", "/", "b", "/">>,
     <<"/", "a", "/", ":", "x">>,
     <<"/", ":", "i", "d", "(", "\\", "d", "+", ")">>,
     <<"/", ":", "x", "+", ".", "t">>}

NextNorm ==
    \/ \E path \in NormPatterns : AddRoute(path)
    \/ \E path \in NormPaths : Match(path)

SpecNorm == Init /\ [][NextNorm]_vars

\* the strict router of the source's tests (lines 374-403)
StrictPatterns ==
    {R_apiFoo,
     R_foo,
     R_apiFooTrail,
     R_FOO}

StrictPaths ==
    {<<"/", "a", "p", "i", "/", "/", "f", "o", "o">>,
     <<"/", "a", "p", "i", "/", "f", "o", "o", "/">>,
     <<"/", "f", "o", "o", "/">>,
     <<"/", "F", "O", "O">>,
     <<"/", "a", "p", "i", "/", "f", "o", "o">>,
     <<"/", "f", "o", "o">>,
     <<"/", "A", "P", "I", "/", "f", "o", "o">>,
     <<"/", "/", "f", "o", "o">>,
     <<"f", "o", "o">>}

InitStrict == Construct(StrictOptions)

NextStrict ==
    \/ \E path \in StrictPatterns : AddRoute(path)
    \/ \E path \in StrictPaths : Match(path)

SpecStrict == InitStrict /\ [][NextStrict]_vars

\* the lenient router of the source's tests (lines 385-427)
LenientPatterns ==
    {R_apiFoo,
     R_foo,
     R_apiFooTrail,
     R_fooX}

LenientPaths ==
    {<<"/", "a", "p", "i", "/", "/", "f", "o", "o">>,
     <<"/", "a", "p", "i", "/", "f", "o", "o", "/">>,
     <<"/", "f", "o", "o", "/">>,
     <<"/", "F", "O", "O">>,
     <<"/", "a", "p", "i", "/", "f", "o", "o">>,
     <<"/", "f", "o", "o">>,
     <<"/", "A", "P", "I", "/", "/", "F", "o", "o", "/">>,
     <<"/", "/", "f", "o", "o", "/", "/">>,
     <<"f", "o", "o">>}

InitLenient == Construct(LenientOptions)

NextLenient ==
    \/ \E path \in LenientPatterns : AddRoute(path)
    \/ \E path \in LenientPaths : Match(path)

SpecLenient == InitLenient /\ [][NextLenient]_vars

\* routes whose constrained-parameter pattern does not compile, next to
\* routes that register
InsertPatterns ==
    {R_a,
     R_xDigits,
     R_xBad,
     R_axBad}

InsertPaths ==
    {<<"/", "a">>,
     <<"/", "4", "2">>,
     <<"/", "a", "/", "7">>}

NextInsert ==
    \/ \E path \in InsertPatterns : AddRoute(path)
    \/ \E path \in InsertPaths : Match(path)

SpecInsert == Init /\ [][NextInsert]_vars

\* the server of the source (index.ts lines 70-92): the route /test/:id for
\* one method and the fallback /*, and requests with either method
GET == <<"G", "E", "T">>

POST == <<"P", "O", "S", "T">>

ServerRoutes ==
    {<<R_testId, <<GET>>>>,
     <<R_testId, <<>>>>,
     <<R_star, <<>>>>}

ServerUrls ==
    {<<"/", "t", "e", "s", "t", "/", "1">>,
     <<"/", "x">>}

ServerMethods == {GET, POST}

InitServer == Construct(LenientOptions)

NextServer ==
    \/ \E r \in ServerRoutes : Http(r[1], r[2])
    \/ \E handler \in 1..MaxRoutes, returns \in {"object", "undefined"} :
          Add(handler, returns)
    \/ \E url \in ServerUrls, method \in ServerMethods : Receive(url, method)
    \/ Invoke

SpecServer == InitServer /\ [][NextServer]_vars

\* a handler that was called returns: the listener resumes after its await
SpecServerFair == SpecServer /\ WF_vars(Invoke)

\* parseSegment on every segment of up to MaxSegLen marker and name
\* characters, and on the segment of the specification's example
SegmentChars == {":", "*", "(", ")", "+", "a"}

RECURSIVE SeqsUpTo(_, _)
SeqsUpTo(S, n) ==
    IF n = 0 THEN {<<>>}
    ELSE LET shorter == SeqsUpTo(S, n - 1)
         IN shorter \cup {Append(q, c) : q \in {r \in shorter : Len(r) = n - 1}, c \in S}

\* :id(\d+)+json
S_idDigitsJson == <<":", "i", "d", "(", "\\", "d", "+", ")", "+", "j", "s", "o", "n">>

Segments == SeqsUpTo(SegmentChars, MaxSegLen) \cup {S_idDigitsJson}

\* a router, and a segment about to be handed to parseSegment
InitClassify ==
    \E segment \in Segments :
        /\ options = LenientOptions
        /\ nodes = <<TrieNode>>
        /\ routes = <<>>
        /\ call = Call("input", segment, 0)
        /\ ret = Return(<<>>)
        /\ httpHandlers = <<>>
        /\ request = NoRequest

NextClassify == call.op = "input" /\ ParseSegment(call.path)

SpecClassify == InitClassify /\ [][NextClassify]_vars

(***************************************************************************)
(* What the claims speak of.                                               *)
(***************************************************************************)
\* the normalized patterns registered so far
Keys == {routes[j][1] : j \in 1..Len(routes)}

Elems(q) == {q[j] : j \in 1..Len(q)}

\* all handlers of hs are in the handler list of one of the results
Returned(results, hs) ==
    \A h \in Elems(hs) : \E j \in 1..Len(results) : h \in Elems(results[j].handlers)

\* the attempts match makes for the path under the options, in order
Attempts(path) ==
    <<matchPath(path, FALSE, FALSE)>>
    \o (IF options.fixedPath THEN <<matchPath(path, TRUE, FALSE)>> ELSE <<>>)
    \o (IF options.trailingSlash THEN <<matchPath(path, options.fixedPath, TRUE)>> ELSE <<>>)

FirstNonEmpty(attempts) ==
    LET nonEmpty == {j \in 1..Len(attempts) : attempts[j] # <<>>}
    IN IF nonEmpty = {} THEN <<>>
       ELSE attempts[CHOOSE j \in nonEmpty : \A m \in nonEmpty : j <= m]

\* C1: match returns exactly the result list of the first non-empty attempt
\* in the order exact, collapsing only (attempted only with fixedPath),
\* trailing-separator trimming with collapsing as fixedPath says (attempted
\* only with trailingSlash), and the empty list when every attempt is empty;
\* later attempts are never merged into or preferred over an earlier one.
C1_FirstNonEmptyAttempt ==
    call.op = "match" => ret.value = FirstNonEmpty(Attempts(call.path))

\* a match answered by the third attempt, both earlier ones being empty
C1_Witness ==
    /\ call.op = "match"
    /\ options.fixedPath /\ options.trailingSlash
    /\ matchPath(call.path, FALSE, FALSE) = <<>>
    /\ matchPath(call.path, TRUE, FALSE) = <<>>
    /\ ret.value # <<>>

\* the path without its leading separators
Stripped(path) == TrimLeadingSlashes(path)

HasTrailingSeparator(path) ==
    Stripped(path) # <<>> /\ Stripped(path)[Len(Stripped(path))] = SLASH

HasRepeatedSeparator(path) ==
    CollapseSlashes(TrimTrailingSlashes(Stripped(path))) # TrimTrailingSlashes(Stripped(path))

\* a pattern of static (unescaped), named, named-suffix and wildcard
\* segments, with a catch-all at most as its last segment
PlainPattern(key) ==
    LET segs == FilterNonEmpty(split(key))
    IN \A j \in 1..Len(segs) :
          LET parsed == parseSegment(segs[j])
          IN \/ parsed.type = "static" /\ parsed.value = <<segs[j]>>
             \/ parsed.type \in {"named", "named-suffix", "wildcard"}
             \/ parsed.type = "catch-all" /\ j = Len(segs)

\* C2 as stated: under every option combination, a path with the storage
\* normalization of a registered pattern gets a non-empty result that
\* contains the pattern's handlers.
C2_Original ==
    call.op = "match" =>
        \A j \in 1..Len(routes) :
            routes[j][1] = normalizeRoutePath(call.path) =>
                ret.value # <<>> /\ Returned(ret.value, routes[j][2])

\* C2 as amended: for a pattern of static (unescaped), named, named-suffix
\* and wildcard segments with a catch-all at most last, and a path with the
\* same storage normalization that has a trailing separator only if
\* trailingSlash is on and a repeated separator after its first segment
\* only if fixedPath is on, the result is non-empty; it contains the
\* pattern's handlers when the path has neither.
C2_Amended ==
    call.op = "match" =>
        \A j \in 1..Len(routes) :
            ( /\ routes[j][1] = normalizeRoutePath(call.path)
              /\ PlainPattern(routes[j][1])
              /\ (HasTrailingSeparator(call.path) => options.trailingSlash)
              /\ (HasRepeatedSeparator(call.path) => options.fixedPath) )
            => /\ ret.value # <<>>
               /\ (~HasTrailingSeparator(call.path) /\ ~HasRepeatedSeparator(call.path))
                     => Returned(ret.value, routes[j][2])

\* a path that differs from the registered pattern in case and separators
\* and is matched to its handlers
C2_Witness ==
    /\ call.op = "match"
    /\ call.path = <<"/", "A", "/", "b", "/">>
    /\ \E j \in 1..Len(routes) :
          /\ routes[j][1] = normalizeRoutePath(call.path)
          /\ Returned(ret.value, routes[j][2])

\* the attempts of match as the segment sequences they search, in order
AttemptSegments(path) ==
    <<matchSegments(path, FALSE, FALSE)>>
    \o (IF options.fixedPath THEN <<matchSegments(path, TRUE, FALSE)>> ELSE <<>>)
    \o (IF options.trailingSlash
        THEN <<matchSegments(path, options.fixedPath, TRUE)>> ELSE <<>>)

\* the nodes reached from the root by consuming the first i segments along
\* static children with an equal key and parameter children that accept
\* the segment, each with the parameters bound on the way
RECURSIVE Reached(_, _)
Reached(segs, i) ==
    IF i = 0 THEN {[node |-> ROOT, params |-> {}]}
    ELSE UNION {
            {[node |-> e[2], params |-> c.params] :
                e \in {e \in nodes[c.node].staticChildren : e[1] = segs[i]}}
            \cup
            {[node |-> nodes[c.node].paramChildren[j].node,
              params |-> Bind(c.params, nodes[c.node].paramChildren[j].name,
                              ParamValue(nodes[c.node].paramChildren[j], segs[i])[1])] :
                j \in {j \in 1..Len(nodes[c.node].paramChildren) :
                          ParamValue(nodes[c.node].paramChildren[j], segs[i]) # <<>>}}
            : c \in Reached(segs, i - 1)}

HasCatchAll(n) ==
    nodes[n].catchAllChild # <<>> /\ nodes[nodes[n].catchAllChild[1].node].handlers # <<>>

\* the result of the catch-all child of node c.node, i segments consumed
CatchAllResult(segs, i, c) ==
    MatchResult(Bind(c.params, nodes[c.node].catchAllChild[1].name, join(Drop(segs, i))),
                nodes[nodes[c.node].catchAllChild[1].node].handlers)

\* one result per terminal node with handlers on a viable branch
Terminals(segs) ==
    {MatchResult(c.params, nodes[c.node].handlers) :
        c \in {c \in Reached(segs, Len(segs)) : nodes[c.node].handlers # <<>>}}
    \cup
    UNION {{CatchAllResult(segs, i, c) : c \in {c \in Reached(segs, i) : HasCatchAll(c.node)}} :
             i \in 0..Len(segs)}
    \cup
    UNION {{MatchResult(c.params, nodes[nodes[c.node].wildcardChild].handlers) :
              c \in {c \in Reached(segs, i) :
                        /\ nodes[c.node].wildcardChild # 0
                        /\ nodes[nodes[c.node].wildcardChild].handlers # <<>>}} :
             i \in 0..(Len(segs) - 1)}

\* the segment sequence match answers from: that of the first attempt with
\* a terminal node on a viable branch, <<>> wrapped in a sequence; <<>> when
\* no attempt has one
ChosenSegments(path) ==
    LET attempts == AttemptSegments(path)
        viable == {j \in 1..Len(attempts) : Terminals(attempts[j]) # {}}
    IN IF viable = {} THEN <<>>
       ELSE <<attempts[CHOOSE j \in viable : \A m \in viable : j <= m]>>

\* the nodes below node n
RECURSIVE Below(_)
Below(n) ==
    LET children == {e[2] : e \in nodes[n].staticChildren}
                    \cup {nodes[n].paramChildren[j].node : j \in 1..Len(nodes[n].paramChildren)}
                    \cup (IF nodes[n].catchAllChild # <<>>
                          THEN {nodes[n].catchAllChild[1].node} ELSE {})
                    \cup (IF nodes[n].wildcardChild # 0 THEN {nodes[n].wildcardChild} ELSE {})
    IN children \cup UNION {Below(c) : c \in children}

\* C3 as stated: the handlers registered under one normalized pattern, in
\* registration order, are the handler list of one terminal node, and a
\* request that matches the pattern gets them in a single MatchResult.
C3_Original ==
    /\ \A j \in 1..Len(routes) :
          \E n \in 1..Len(nodes) :
             \A h \in Elems(routes[j][2]) : h \in Elems(nodes[n].handlers)
    /\ call.op = "match" =>
          \A j \in 1..Len(routes) :
             \A m \in 1..Len(ret.value) :
                (Elems(ret.value[m].handlers) \cap Elems(routes[j][2]) # {})
                   => Elems(routes[j][2]) \subseteq Elems(ret.value[m].handlers)

\* C4: the search does not stop at the first match: for the segment
\* sequence of the attempt that answers, the result list holds exactly one
\* MatchResult for every terminal node with handlers on a viable branch;
\* with /:id and /:id(\d+) registered, /42 gets two results and /abc one.
C4_AllBranches ==
    call.op = "match" =>
        LET chosen == ChosenSegments(call.path)
        IN /\ chosen = <<>> => ret.value = <<>>
           /\ chosen # <<>> =>
                 /\ Elems(ret.value) = Terminals(chosen[1])
                 /\ Len(ret.value) = Cardinality(Terminals(chosen[1]))
           /\ (/\ Keys = {<<":", "i", "d">>, <<":", "i", "d", "(", "\\", "d", "+", ")">>}
               /\ CountHandlers(routes) = 2) =>
                 /\ call.path = <<"/", "4", "2">> => Len(ret.value) = 2
                 /\ call.path = <<"/", "a", "b", "c">> =>
                       /\ Len(ret.value) = 1
                       /\ ret.value[1].params = {<<<<"i", "d">>, <<"a", "b", "c">>>>}

\* /42 matched against the siblings /:id and /:id(\d+): two results
C4_Witness ==
    /\ call.op = "match"
    /\ Keys = {<<":", "i", "d">>, <<":", "i", "d", "(", "\\", "d", "+", ")">>}
    /\ call.path = <<"/", "4", "2">>
    /\ Len(ret.value) = 2

\* C7: a catch-all child with handlers, at a node reached with k >= 0
\* segments remaining, yields exactly one MatchResult, which binds its name
\* to the remaining segments joined with "/" (the empty string when k = 0);
\* no result comes from below a catch-all child; /:rest* matches /a/b/c
\* with rest = "a/b/c" and / with rest = "".
C7_CatchAll ==
    call.op = "match" =>
        LET chosen == ChosenSegments(call.path)
        IN /\ chosen # <<>> =>
                 \A i \in 0..Len(chosen[1]) :
                    \A c \in {c \in Reached(chosen[1], i) : HasCatchAll(c.node)} :
                       Cardinality({m \in 1..Len(ret.value) :
                                      ret.value[m] = CatchAllResult(chosen[1], i, c)}) = 1
           /\ \A n \in 1..Len(nodes) :
                 nodes[n].catchAllChild # <<>> =>
                    \A d \in Below(nodes[n].catchAllChild[1].node) :
                       \A m \in 1..Len(ret.value) :
                          Elems(ret.value[m].handlers) \cap Elems(nodes[d].handlers) = {}
           /\ routes = <<<<<<":", "r", "e", "s", "t", "*">>, <<1>>>>>> =>
                 /\ call.path = <<"/", "a", "/", "b", "/", "c">> =>
                       ret.value = <<MatchResult({<<<<"r", "e", "s", "t">>,
                                                   <<"a", "/", "b", "/", "c">>>>}, <<1>>)>>
                 /\ call.path = <<"/">> =>
                       ret.value = <<MatchResult({<<<<"r", "e", "s", "t">>, <<>>>>}, <<1>>)>>

\* a catch-all below a static node binding the empty string, and a route
\* that continues below a catch-all
C7_Witness ==
    /\ call.op = "match"
    /\ call.path = <<"/", "a">>
    /\ Keys = {<<"a", "/", ":", "r", "*">>, <<":", "r", "*", "/", "b">>}
    /\ ret.value = <<MatchResult({<<<<"r">>, <<>>>>}, <<1>>)>>

\* the route, as a path prefix, of a pattern that ends in the wildcard
WildcardPrefix(key) ==
    IF key = <<"*">> THEN <<SLASH>> ELSE <<SLASH>> \o Take(key, Len(key) - 1)

\* a pattern of static segments that ends in the wildcard
StaticWildcard(key) ==
    LET segs == FilterNonEmpty(split(key))
    IN /\ segs # <<>>
       /\ segs[Len(segs)] = <<"*">>
       /\ join(segs) = key
       /\ \A j \in 1..(Len(segs) - 1) :
             parseSegment(segs[j]) = Parsed("static", <<>>, <<segs[j]>>, <<>>, <<>>)

\* C8 as stated: a route that ends in the wildcard matches every path that
\* has the route's prefix followed by a separator, whatever follows, and
\* its MatchResult binds no parameter for the wildcard.
C8_Original ==
    call.op = "match" =>
        \A j \in 1..Len(routes) :
            ( /\ StaticWildcard(routes[j][1])
              /\ startsWith(IF options.ignoreCase THEN toLowerCase(call.path) ELSE call.path,
                            WildcardPrefix(routes[j][1])) )
            => \E m \in 1..Len(ret.value) :
                  /\ Elems(routes[j][2]) \subseteq Elems(ret.value[m].handlers)
                  /\ ret.value[m].params = {}

\* C10: match never fails and changes nothing: the trie and the registry
\* are as before the call, and the call returns what match returns on
\* that unchanged trie, whatever calls came before.
C10_MatchFrame ==
    [][call'.op = "match" =>
          /\ ~ret'.threw
          /\ nodes' = nodes /\ routes' = routes /\ options' = options
          /\ ret'.value = match(call'.path)
          /\ (call.op = "match" /\ call.path = call'.path) => ret' = ret]_vars

\* a match with results on a trie with two routes
C10_Witness ==
    /\ call.op = "match"
    /\ Len(routes) = 2
    /\ Len(ret.value) = 2

\* every registered pattern is made of plain static segments only
OnlyStaticRoutes ==
    \A key \in Keys :
       \A seg \in Elems(FilterNonEmpty(split(key))) :
          parseSegment(seg) = Parsed("static", <<>>, <<seg>>, <<>>, <<>>)

\* the two strings differ at most in letter case, in repeated separators
\* and in trailing separators
SameButCaseAndSeparators(a, b) ==
    toLowerCase(CollapseSlashes(TrimTrailingSlashes(a)))
        = toLowerCase(CollapseSlashes(TrimTrailingSlashes(b)))

C6_Original ==
    ( /\ call.op = "match"
      /\ options = LenientOptions )
    => \A j \in 1..Len(routes) :
          ( /\ \A seg \in Elems(FilterNonEmpty(split(routes[j][1]))) :
                  parseSegment(seg) = Parsed("static", <<>>, <<seg>>, <<>>, <<>>)
            /\ routes[j][1] = normalizeRoutePath(call.path) )
          => \E m \in 1..Len(ret.value) : ret.value[m].handlers = routes[j][2]

\* C6 as amended: with all options on and only plain static routes
\* registered, a path that differs from a route only by letter case,
\* repeated separators and trailing separators gets exactly one
\* MatchResult, with no parameters and the handlers of that route.
C6_Amended ==
    ( /\ call.op = "match"
      /\ options = LenientOptions
      /\ OnlyStaticRoutes )
    => \A j \in 1..Len(routes) :
          routes[j][1] = normalizeRoutePath(call.path)
             => ret.value = <<MatchResult({}, routes[j][2])>>

\* /API//Foo/ matched to the route /api/foo by the lenient router
C6_Witness ==
    /\ call.op = "match"
    /\ options = LenientOptions
    /\ OnlyStaticRoutes
    /\ call.path = <<"/", "A", "P", "I", "/", "/", "F", "o", "o", "/">>
    /\ \E j \in 1..Len(routes) :
          /\ routes[j][1] = <<"a", "p", "i", "/", "f", "o", "o">>
          /\ ret.value = <<MatchResult({}, routes[j][2])>>

\* a name of the classifier's rules: one or more of [a-zA-Z0-9_]
IsName(s) == s # <<>> /\ \A j \in 1..Len(s) : s[j] \in NameChars

\* the segment is :name(pattern), with nothing before or after
IsNameRegex(s) ==
    \E p \in 3..(Len(s) - 2) :
       /\ s[1] = ":" /\ IsName(SubSeq(s, 2, p - 1))
       /\ s[p] = "(" /\ s[Len(s)] = ")"
       /\ \A j \in (p + 1)..(Len(s) - 1) : s[j] # ")"

\* the segment is :name+suffix or :name(pattern)+suffix
IsNameSuffix(s, withRegex) ==
    \E q \in 3..(Len(s) - 1) :
       /\ s[q] = "+"
       /\ IF withRegex THEN IsNameRegex(Take(s, q - 1))
          ELSE s[1] = ":" /\ IsName(SubSeq(s, 2, q - 1))

\* the kind the rules of the classifier give, first rule first
RuleKind(s) ==
    IF startsWith(s, <<":", ":">>) THEN "static"
    ELSE IF s = <<"*">> THEN "wildcard"
    ELSE IF startsWith(s, <<":">>) /\ endsWith(s, <<"*">>) THEN "catch-all"
    ELSE IF IsNameSuffix(s, TRUE) THEN "named-regex-suffix"
    ELSE IF IsNameSuffix(s, FALSE) THEN "named-suffix"
    ELSE IF IsNameRegex(s) THEN "named-regex"
    ELSE IF startsWith(s, <<":">>) THEN "named"
    ELSE "static"

\* C9 as stated: parseSegment never fails and returns the kind of the first
\* rule that applies: escape pair, wildcard, catch-all, :name with optional
\* (pattern) then +suffix, :name(pattern), leading marker, else static with
\* the segment verbatim; :id(\d+)+json is named-regex-suffix.
C9_Original ==
    call.op = "parseSegment" =>
        /\ ~ret.threw
        /\ ret.value.type = RuleKind(call.path)
        /\ (RuleKind(call.path) = "static" /\ ~startsWith(call.path, <<":", ":">>))
              => ret.value.value = <<call.path>>
        /\ call.path = S_idDigitsJson => ret.value.type = "named-regex-suffix"

\* what identifies a parameter-child record: kind, name, pattern source and
\* suffix
RecordKey(param) ==
    <<param.type, param.name,
      IF param.regex = <<>> THEN <<>> ELSE <<param.regex[1].source>>,
      param.suffix>>

\* C11 as stated: after any sequence of addRoute calls no node has two
\* parameter-child records with the same kind, name, pattern source and
\* suffix: a segment equal to an existing record on all four reuses it.
C11_Original ==
    \A n \in 1..Len(nodes) :
       \A i, j \in 1..Len(nodes[n].paramChildren) :
          RecordKey(nodes[n].paramChildren[i]) = RecordKey(nodes[n].paramChildren[j])
             => i = j

\* a is before b in the order of discovery: at the first node where the
\* two branches part, a takes the branch looked at first
RECURSIVE LexLess(_, _)
LexLess(a, b) ==
    IF a = <<>> THEN b # <<>>
    ELSE IF b = <<>> THEN FALSE
    ELSE IF Head(a) # Head(b) THEN Head(a) < Head(b)
    ELSE LexLess(Tail(a), Tail(b))

\* the rank of a branch at node n: its own handlers 0, the static child 1,
\* the j-th parameter record 1 + j, then the catch-all, then the wildcard
CatchAllRank(n) == Len(nodes[n].paramChildren) + 2

WildcardRank(n) == Len(nodes[n].paramChildren) + 3

\* every result found from node n with i segments consumed, each with the
\* branch ranks on its way down from n
RECURSIVE Discovered(_, _, _, _)
Discovered(n, params, segs, i) ==
    LET own == IF nodes[n].handlers # <<>> /\ i >= Len(segs)
               THEN {[key |-> <<0>>, result |-> MatchResult(params, nodes[n].handlers)]}
               ELSE {}
        catchAll ==
            IF HasCatchAll(n)
            THEN {[key |-> <<CatchAllRank(n)>>,
                   result |-> CatchAllResult(segs, i, [node |-> n, params |-> params])]}
            ELSE {}
        wildcard ==
            IF /\ i < Len(segs) /\ nodes[n].wildcardChild # 0
               /\ nodes[nodes[n].wildcardChild].handlers # <<>>
            THEN {[key |-> <<WildcardRank(n)>>,
                   result |-> MatchResult(params, nodes[nodes[n].wildcardChild].handlers)]}
            ELSE {}
        static ==
            IF i >= Len(segs) THEN {}
            ELSE UNION {{[key |-> <<1>> \o d.key, result |-> d.result] :
                            d \in Discovered(e[2], params, segs, i + 1)} :
                        e \in {e \in nodes[n].staticChildren : e[1] = segs[i + 1]}}
        param ==
            IF i >= Len(segs) THEN {}
            ELSE UNION {{[key |-> <<1 + j>> \o d.key, result |-> d.result] :
                            d \in Discovered(nodes[n].paramChildren[j].node,
                                     Bind(params, nodes[n].paramChildren[j].name,
                                          ParamValue(nodes[n].paramChildren[j],
                                                     segs[i + 1])[1]),
                                     segs, i + 1)} :
                        j \in {j \in 1..Len(nodes[n].paramChildren) :
                                  ParamValue(nodes[n].paramChildren[j], segs[i + 1]) # <<>>}}
    IN own \cup static \cup param \cup catchAll \cup wildcard

\* the results of a set of discoveries, first discovered first
InDiscoveryOrder(D) ==
    [k \in 1..Cardinality(D) |->
        (CHOOSE d \in D : Cardinality({e \in D : LexLess(e.key, d.key)}) = k - 1).result]

\* C12: the result list of match is in discovery order of a depth-first
\* search: at every node the results through the static child come first,
\* then those through the parameter records in insertion order, then the
\* node's catch-all result, then those of its wildcard child, whatever the
\* order in which routes of different kinds were registered.
C12_DiscoveryOrder ==
    call.op = "match" =>
        LET chosen == ChosenSegments(call.path)
        IN /\ chosen # <<>> =>
                 ret.value = InDiscoveryOrder(Discovered(ROOT, {}, chosen[1], 0))
           /\ (/\ call.path = <<"/", "a">>
               /\ \E s, w \in {1, 2} :
                     routes = <<<<<<"a">>, <<s>>>>, <<<<"*">>, <<w>>>>>>
                     \/ routes = <<<<<<"*">>, <<w>>>>, <<<<"a">>, <<s>>>>>>) =>
                 /\ Len(ret.value) = 2
                 /\ ret.value[1].handlers = routes[CHOOSE j \in {1, 2} :
                                                      routes[j][1] = <<"a">>][2]
                 /\ ret.value[2].handlers = routes[CHOOSE j \in {1, 2} :
                                                      routes[j][1] = <<"*">>][2]

\* the wildcard route registered before the static one, and yet the static
\* result first
C12_Witness ==
    /\ call.op = "match"
    /\ call.path = <<"/", "a">>
    /\ routes = <<<<<<"*">>, <<1>>>>, <<<<"a">>, <<2>>>>>>
    /\ ret.value = <<MatchResult({}, <<2>>), MatchResult({}, <<1>>)>>

\* C14 as stated: an addRoute that fails because the pattern of a
\* constrained parameter does not compile leaves the router as it was: no
\* node or child is added, no handler is attached, and the registry of
\* patterns gains no entry and no handler.
C14_Original ==
    [][(call'.op = "addRoute" /\ ret'.threw) => (nodes' = nodes /\ routes' = routes)]_vars

\* the handlers of the results, each with the params of its result:
\* results in match order, handlers in registration order within a result
RECURSIVE Flat(_)
Flat(matched) ==
    IF matched = <<>> THEN <<>>
    ELSE [k \in 1..Len(Head(matched).handlers) |->
             [handler |-> Head(matched).handlers[k], params |-> Head(matched).params]]
         \o Flat(Tail(matched))

\* C13: for one request the listener invokes the handlers of the matched
\* results strictly in order, each with the params of its own result, one
\* at a time; it goes on while the awaited values are truthy, and once a
\* handler's awaited value is falsy no later handler of that result or of a
\* later result is invoked for the request.
C13_DispatchInOrder ==
    LET flat == Flat(request.matched)
        invoked == request.invoked
    IN /\ Len(invoked) <= Len(flat)
       /\ \A k \in 1..Len(invoked) :
             /\ invoked[k].handler = flat[k].handler
             /\ invoked[k].params = flat[k].params
             /\ k < Len(invoked) => ~Falsy(invoked[k].next)
       /\ request.pc = "dispatch" =>
             /\ Len(invoked) < Len(flat)
             /\ \A k \in 1..Len(invoked) : ~Falsy(invoked[k].next)
       /\ request.pc = "done" =>
             \/ Len(invoked) = Len(flat)
             \/ Len(invoked) > 0 /\ Falsy(invoked[Len(invoked)].next)

\* a GET of /test/1 with /test/:id and /* registered: two results; the
\* handler of the first was invoked with id = "1" and its chain said not to
\* continue, so the handler of the second result was not invoked
C13_Witness ==
    /\ request.pc = "done"
    /\ request.url = <<"/", "t", "e", "s", "t", "/", "1">>
    /\ request.method = GET
    /\ Len(request.matched) = 2
    /\ Len(request.invoked) = 1
    /\ request.invoked[1].params = {<<<<"i", "d">>, <<"1">>>>}
    /\ request.invoked[1].next = "false"

\* the handler was registered by http with a method other than the method
\* of the request in flight
OtherMethod(handler) ==
    /\ httpHandlers[handler].method # <<>>
    /\ toUpperCase(httpHandlers[handler].method[1]) # toUpperCase(request.method)

\* the k-th handler of the matched results is the last one of a result that
\* is not the last result
EndsEarlierResult(k) ==
    \E m \in 1..(Len(request.matched) - 1) :
       Len(Flat(SubSeq(request.matched, 1, m))) = k

\* C15 as stated: when the request matches several routes and the handlers
\* invoked so far all belong to routes registered by http for another
\* method, the last of them ending its result, those routes are skipped
\* and the first handler of the next matched route is eventually invoked
\* (with /test/:id for GET and the fallback /*, a POST of /test/1
\* eventually runs the handler of /*).
C15_Original ==
    \A k \in 1..MaxRoutes :
       (/\ Len(request.invoked) = k
        /\ \A i \in 1..k : OtherMethod(request.invoked[i].handler)
        /\ EndsEarlierResult(k))
       ~> (Len(request.invoked) > k)

====
